---- MODULE Spec2Model ----
(***************************************************************************)
(* A model of roblox_client: the retrying request executor                 *)
(* AsyncClientBase._request, the clients built on it and the scoped        *)
(* sessions ds_client / ods_client, run by one single-threaded event loop. *)
(*                                                                         *)
(* A logical call is one invocation of a public client method.  Between    *)
(* two awaits a task runs alone, so every action below is the code between *)
(* two suspension points.  time.sleep does not suspend: it holds the event *)
(* loop's thread, which the model records in `blocker`.  Time is counted   *)
(* in the units of time.sleep and only the backoff waits are measured.     *)
(***************************************************************************)
EXTENDS Integers, Sequences, FiniteSets, TLC

\* ---- program constants -------------------------------------------------
MAX_RETRIES == 5
NO_CONTENT == 204
TOO_MANY_REQUESTS == 429
BAD_GATEWAY == 502

\* ---- bounds --------------------------------------------------------------
\* number of logical calls made through the one client of the scope
NumCalls == 2

Calls == 1..NumCalls

\* statuses the transport answers with: a sample of each class the executor
\* distinguishes (parsed 2xx, 204, a status below 400 outside 2xx, a terminal
\* error, the two retried errors)
Statuses == {200, NO_CONTENT, 304, 401, TOO_MANY_REQUESTS, BAD_GATEWAY}

\* response bodies: two JSON documents and one text that is not JSON
Bodies == {"1", "2", "<html>"}

NoValue == 0

\* response.json(): the value of a JSON document, or a failure
JsonOk(body) == body \in {"1", "2"}
JsonValue(body) == IF body = "1" THEN 1 ELSE IF body = "2" THEN 2 ELSE NoValue

\* response.raise_for_status(): aiohttp raises ClientResponseError when the
\* status is 400 or above
RaisesForStatus(status) == status >= 400

Retryable == {TOO_MANY_REQUESTS, BAD_GATEWAY}

BackoffLinear(attempt) == 2 * attempt
BackoffCapped(attempt) == IF attempt > 4 THEN 16 ELSE 2 ^ attempt
\* time.sleep(2 ** attempt)
Backoff(attempt) == 2 ^ attempt

ShouldRetryNoBound(status, attempt) == status \in Retryable
ShouldRetryAnyError(status, attempt) == RaisesForStatus(status) /\ attempt <= MAX_RETRIES
\* the retry branch of _request
ShouldRetry(status, attempt) == status \in Retryable /\ attempt <= MAX_RETRIES

Outcome(kind, status, payload, parsed) ==
    [kind |-> kind, status |-> status, payload |-> payload, parsed |-> parsed]
NoOutcome == Outcome("None", 0, NoValue, FALSE)

Response(status, body) == [status |-> status, body |-> body]
NoResponse == Response(0, "")

\* what the transport may answer: any body on a status that is not an error,
\* the JSON error detail "2" on an error status
Responses ==
    {Response(s, b) : s \in {s \in Statuses : ~RaisesForStatus(s)}, b \in Bodies}
        \cup {Response(s, "2") : s \in {s \in Statuses : RaisesForStatus(s)}}

ClassifyNoContentParsed(status, body) ==
    IF RaisesForStatus(status) THEN Outcome("HttpError", status, NoValue, FALSE)
    ELSE IF JsonOk(body) THEN Outcome("Success", status, JsonValue(body), TRUE)
    ELSE Outcome("ParseError", status, NoValue, TRUE)
ClassifyFixedPayload(status, body) ==
    IF RaisesForStatus(status) THEN Outcome("HttpError", status, NoValue, FALSE)
    ELSE IF status # NO_CONTENT
    THEN IF JsonOk(body) THEN Outcome("Success", status, 1, TRUE)
         ELSE Outcome("ParseError", status, NoValue, TRUE)
    ELSE Outcome("Empty", status, NoValue, FALSE)
ClassifyParseSwallowed(status, body) ==
    IF RaisesForStatus(status) THEN Outcome("HttpError", status, NoValue, FALSE)
    ELSE IF status # NO_CONTENT /\ JsonOk(body)
    THEN Outcome("Success", status, JsonValue(body), TRUE)
    ELSE Outcome("Empty", status, NoValue, FALSE)
\* the tail of _request: raise_for_status, then json() unless 204
Classify(status, body) ==
    IF RaisesForStatus(status) THEN Outcome("HttpError", status, NoValue, FALSE)
    ELSE IF status # NO_CONTENT
    THEN IF JsonOk(body) THEN Outcome("Success", status, JsonValue(body), TRUE)
         ELSE Outcome("ParseError", status, NoValue, TRUE)
    ELSE Outcome("Empty", status, NoValue, FALSE)

\* ---- request construction ------------------------------------------------
RBX_API_URL == "https://apis.roblox.com/"
DATASTORE_URL == RBX_API_URL \o "datastores/v1/universes/"
\* ORDERED_DATASTORE_URL.format(universe_id, ods_name, scope)
OrderedDatastoreUrl(universe, name, sc) ==
    RBX_API_URL \o "ordered-data-stores/v1/universes/" \o universe
        \o "/orderedDataStores/" \o name \o "/scopes/" \o sc \o "/entries"

\* the arguments of the smoke test, used wherever the inputs do not matter
SmokeUniverse == "universe_id"
SmokeStore == "data-store-name"
SmokeKey == "this-key-doesnt-exist"
DefaultScope == "global"

\* a dict of strings, as a function from its keys
EmptyMap == [k \in {} |-> ""]
Single(k, v) == [x \in {k} |-> v]

ParamKeys == {"entryKey", "cursor"}
ParamValues == {"a", "b"}
ParamMaps == UNION {[D -> ParamValues] : D \in SUBSET ParamKeys}
EntryKeys == {"k"}
AttemptKw == Single("attempt", "3")

\* {**a, **b}
Merge(a, b) ==
    [k \in DOMAIN a \cup DOMAIN b |-> IF k \in DOMAIN b THEN b[k] ELSE a[k]]

NoJson == "<absent>"
Request(verb, url, params, json) ==
    [verb |-> verb, url |-> url, params |-> params, json |-> json]
NoRequest == Request("", "", EmptyMap, NoJson)

\* self.url of the two clients
ClientUrl(kind) ==
    IF kind = "ds" THEN DATASTORE_URL \o SmokeUniverse \o "/standard-datastores"
    ELSE OrderedDatastoreUrl(SmokeUniverse, SmokeStore, DefaultScope)

OpsOf(kind) ==
    IF kind = "ds"
    THEN {"list_datastores", "list_entries", "get_entry", "set_entry", "delete_entry"}
    ELSE IF kind = "ods" THEN {"list", "delete"} ELSE {}

KeyedOps == {"get_entry", "set_entry", "delete_entry"}

\* params={**self.base_params, **kwargs}
ListParams(base, kw) == Merge(base, kw)

EntryParamsBaseWins(key, base, kw) == Merge(Merge(Single("entryKey", key), kw), base)
\* params={'entryKey': entry_key, **self.base_params, **kwargs}
EntryParams(key, base, kw) == Merge(Merge(Single("entryKey", key), base), kw)

\* AsyncOrderedDataStoreClient.list: params=kwargs
OdsListParams(kw) == kw

OdsDeleteParamsForwarded(kw) == kw
\* AsyncOrderedDataStoreClient.delete passes no params
OdsDeleteParams(kw) == EmptyMap

\* the positional and keyword arguments a public method hands to _request
BuildRequest(kind, op, base, key, data, kw) ==
    CASE op = "list_datastores" ->
           Request("GET", ClientUrl(kind), ListParams(base, kw), NoJson)
      [] op = "list_entries" ->
           Request("GET", ClientUrl(kind) \o "/datastore/entries", ListParams(base, kw), NoJson)
      [] op = "get_entry" ->
           Request("GET", ClientUrl(kind) \o "/datastore/entries/entry",
                   EntryParams(key, base, kw), NoJson)
      [] op = "set_entry" ->
           Request("POST", ClientUrl(kind) \o "/datastore/entries/entry",
                   EntryParams(key, base, kw), data)
      [] op = "delete_entry" ->
           Request("DELETE", ClientUrl(kind) \o "/datastore/entries/entry",
                   EntryParams(key, base, kw), NoJson)
      [] op = "list" ->
           Request("GET", ClientUrl(kind), OdsListParams(kw), NoJson)
      [] op = "delete" ->
           Request("DELETE", ClientUrl(kind) \o "/" \o key, OdsDeleteParams(kw), NoJson)

FirstAttemptFromKwargs(kw) == IF "attempt" \in DOMAIN kw THEN 3 ELSE 1
\* no public method passes `attempt` on: _request starts with its default
FirstAttempt(kw) == 1

RetryArgsNoParams(req) == [req EXCEPT !.params = EmptyMap]
\* the recursive call passes the same *args and **kwargs
RetryArgs(req) == req

\* ---- session keyword arguments ---------------------------------------------
\* a value of the keyword dict: a nested dict of strings or a leaf
MapVal(m) == [isMap |-> TRUE, map |-> m, leaf |-> ""]
LeafVal(v) == [isMap |-> FALSE, map |-> EmptyMap, leaf |-> v]
NoKw == [k \in {} |-> LeafVal("")]
HeadersKw(h) == [k \in {"headers"} |-> MapVal(h)]

\* keyword arguments callers give ds_client / ods_client
SmokeKw == HeadersKw(Single("x-api-key", "xxxxxxxxxxxxxxxxxxxx"))
CallerKws ==
    { NoKw,
      HeadersKw(EmptyMap),
      HeadersKw(Single("x-api-key", "K2")),
      HeadersKw(Single("accept", "json")),
      HeadersKw([k \in {"x-api-key", "accept"} |-> IF k = "accept" THEN "json" ELSE "K2"]),
      [k \in {"timeout"} |-> LeafVal("30")],
      SmokeKw }

\* os.environ.get('ROBLOX_API_KEY'): the key, or None when it is not set
EnvValues == {"K", "None"}

DeepMergeShallow(dst, src) ==
    [k \in DOMAIN dst \cup DOMAIN src |-> IF k \in DOMAIN src THEN src[k] ELSE dst[k]]
\* mergedeep.merge(destination, source): nested dicts combine, the source wins
\* on a leaf
DeepMerge(dst, src) ==
    [k \in DOMAIN dst \cup DOMAIN src |->
        IF k \notin DOMAIN src THEN dst[k]
        ELSE IF k \in DOMAIN dst /\ dst[k].isMap /\ src[k].isMap
             THEN MapVal(Merge(dst[k].map, src[k].map))
             ELSE src[k]]

VARIABLES
    environ,    \* os.environ['ROBLOX_API_KEY']
    scope,      \* the `async with ds_client(...)` block: "init", "active", "exited"
    session,    \* the aiohttp.ClientSession: "none", "open", "closed"
    sessionKw,  \* the keyword arguments the ClientSession was built with
    clientKind, \* the client the block yielded: "none", "ds", "ods"
    baseParams, \* AsyncDataStoreClient.base_params
    releases,   \* how many times the session has been closed
    exitPath,   \* how the block was left: "none", "normal", "error", "cancel"
    cancelReq,  \* the surrounding task has been asked to cancel
    retries,    \* AsyncClientBase.retries
    clock,      \* time spent in time.sleep so far
    blocker,    \* the call inside time.sleep, 0 when the event loop is free
    pc,         \* per call: "idle", "inflight", "sleeping", "done"
    attempt,    \* per call: the `attempt` argument of the current _request frame
    request,    \* per call: the *args, **kwargs of the current _request frame
    requests,   \* per call: requests handed to an open session
    response,   \* per call: the `response` of the current _request frame
    waited,     \* per call: time the call has spent in time.sleep
    outcome     \* per call: what the call returned or raised

vars == <<environ, scope, session, sessionKw, clientKind, baseParams, releases,
          exitPath, cancelReq, retries, clock, blocker,
          pc, attempt, request, requests, response, waited, outcome>>

scopeVars == <<scope, session, releases, exitPath, cancelReq>>

\* what is fixed once the block has been entered
clientVars == <<environ, sessionKw, clientKind, baseParams>>

\* with_x_api_key(kwargs)
WithXApiKey(kwargs) == DeepMerge(HeadersKw(Single("x-api-key", environ)), kwargs)

InitWith(env) ==
    /\ environ = env
    /\ scope = "init"
    /\ session = "none"
    /\ sessionKw = NoKw
    /\ clientKind = "none"
    /\ baseParams = EmptyMap
    /\ releases = 0
    /\ exitPath = "none"
    /\ cancelReq = FALSE
    /\ retries = 0
    /\ clock = 0
    /\ blocker = 0
    /\ pc = [c \in Calls |-> "idle"]
    /\ attempt = [c \in Calls |-> 0]
    /\ request = [c \in Calls |-> NoRequest]
    /\ requests = [c \in Calls |-> 0]
    /\ response = [c \in Calls |-> NoResponse]
    /\ waited = [c \in Calls |-> 0]
    /\ outcome = [c \in Calls |-> NoOutcome]

Init == InitWith("K")

\* session.request on a closed ClientSession raises RuntimeError
SessionAccepts(s) == s = "open"

\* `async with aiohttp.ClientSession(**with_x_api_key(kwargs)) as session:
\*      yield Client(session, ...)`
Enter(kind, base, kwargs) ==
    /\ scope = "init"
    /\ scope' = "active"
    /\ session' = "open"
    /\ sessionKw' = WithXApiKey(kwargs)
    /\ clientKind' = kind
    /\ baseParams' = IF kind = "ds" THEN base ELSE EmptyMap
    /\ retries' = 0
    /\ UNCHANGED <<environ, releases, exitPath, cancelReq, clock, blocker,
                   pc, attempt, request, requests, response, waited, outcome>>

\* the block of the smoke test: ods_client('universe_id', 'data-store-name', headers=...)
EnterScope == Enter("ods", EmptyMap, SmokeKw)

\* `response = await self.session.request(*args, **kwargs)` of the frame with
\* argument a: the request goes out and the task suspends, or the closed
\* session raises and the error leaves the call
IssueRequest(c, a) ==
    /\ attempt' = [attempt EXCEPT ![c] = a]
    /\ response' = [response EXCEPT ![c] = NoResponse]
    /\ IF SessionAccepts(session)
       THEN /\ pc' = [pc EXCEPT ![c] = "inflight"]
            /\ requests' = [requests EXCEPT ![c] = @ + 1]
            /\ outcome' = outcome
       ELSE /\ pc' = [pc EXCEPT ![c] = "done"]
            /\ requests' = requests
            /\ outcome' = [outcome EXCEPT ![c] = Outcome("SessionClosed", 0, NoValue, FALSE)]

\* a public method of the client builds its request and calls self._request
Invoke(c, op, key, data, kw) ==
    /\ scope # "init"
    /\ blocker = 0
    /\ pc[c] = "idle"
    /\ op \in OpsOf(clientKind)
    /\ request' = [request EXCEPT ![c] = BuildRequest(clientKind, op, baseParams, key, data, kw)]
    /\ IssueRequest(c, FirstAttempt(kw))
    /\ UNCHANGED <<scopeVars, clientVars, retries, clock, blocker, waited>>

\* keyword arguments of the calls of Spec
SpecKwargs == {EmptyMap, AttemptKw}

\* the call of the smoke test: ods_client.delete('this-key-doesnt-exist')
StartCall(c) == \E kw \in SpecKwargs : Invoke(c, "delete", SmokeKey, NoJson, kw)

\* the transport answers and the task resumes after the await of line 45
Receive(c, r) ==
    /\ blocker = 0
    /\ pc[c] = "inflight"
    /\ session = "open"
    /\ response' = [response EXCEPT ![c] = r]
    /\ IF ShouldRetry(r.status, attempt[c])
       THEN /\ pc' = [pc EXCEPT ![c] = "sleeping"]
            /\ blocker' = c
            /\ outcome' = outcome
       ELSE /\ pc' = [pc EXCEPT ![c] = "done"]
            /\ blocker' = blocker
            /\ outcome' = [outcome EXCEPT ![c] = Classify(r.status, r.body)]
    /\ UNCHANGED <<scopeVars, clientVars, retries, clock, attempt, request, requests, waited>>

NextRetriesFromAttempt(c) == attempt[c]
NextRetriesSkipFirst(c) == IF attempt[c] = 1 THEN retries ELSE retries + 1
\* self.retries += 1
NextRetries(c) == retries + 1

\* time.sleep returns; self.retries += 1; the recursive _request(attempt + 1)
\* runs up to its await
WakeUp(c) ==
    /\ blocker = c
    /\ pc[c] = "sleeping"
    /\ clock' = clock + Backoff(attempt[c])
    /\ waited' = [waited EXCEPT ![c] = @ + Backoff(attempt[c])]
    /\ retries' = NextRetries(c)
    /\ blocker' = 0
    /\ request' = [request EXCEPT ![c] = RetryArgs(request[c])]
    /\ IssueRequest(c, attempt[c] + 1)
    /\ UNCHANGED <<scopeVars, clientVars>>

\* the session was closed under a request in flight: the connection is gone
ConnLost(c) ==
    /\ blocker = 0
    /\ pc[c] = "inflight"
    /\ session = "closed"
    /\ pc' = [pc EXCEPT ![c] = "done"]
    /\ outcome' = [outcome EXCEPT ![c] = Outcome("ConnError", 0, NoValue, FALSE)]
    /\ UNCHANGED <<scopeVars, clientVars, retries, clock, blocker, attempt, request,
                   requests, response, waited>>

SessionAfterExitLeak(path) == IF path = "normal" THEN "closed" ELSE "open"
\* leaving the `async with aiohttp.ClientSession(...)` block closes the session
SessionAfterExit(path) == "closed"

ReleasesAfterExitLeak(path) == IF path = "cancel" THEN releases ELSE releases + 1
\* one ClientSession.close() per exit of the block
ReleasesAfterExit(path) == releases + 1

ExitScope(path) ==
    /\ scope = "active"
    /\ blocker = 0
    /\ scope' = "exited"
    /\ exitPath' = path
    /\ session' = SessionAfterExit(path)
    /\ releases' = ReleasesAfterExit(path)

\* the body of the block returns
ExitNormal ==
    /\ ExitScope("normal")
    /\ UNCHANGED <<clientVars, cancelReq, retries, clock, blocker,
                   pc, attempt, request, requests, response, waited, outcome>>

ErrorKinds == {"HttpError", "ParseError", "ConnError"}

\* an error raised by call c leaves the block
ExitError(c) ==
    /\ pc[c] = "done"
    /\ outcome[c].kind \in ErrorKinds
    /\ ExitScope("error")
    /\ UNCHANGED <<clientVars, cancelReq, retries, clock, blocker,
                   pc, attempt, request, requests, response, waited, outcome>>

\* task.cancel() on the task that runs the block; it may be asked for while
\* the event loop is held by time.sleep
CancelRequest ==
    /\ scope = "active"
    /\ ~cancelReq
    /\ cancelReq' = TRUE
    /\ UNCHANGED <<clientVars, scope, session, releases, exitPath, retries, clock, blocker,
                   pc, attempt, request, requests, response, waited, outcome>>

\* CancelledError is thrown into the task at its await: the calls S it is
\* waiting on are cancelled and the error leaves the block
DeliverCancel(S) ==
    /\ cancelReq
    /\ \A c \in S : pc[c] = "inflight"
    /\ ExitScope("cancel")
    /\ pc' = [c \in Calls |-> IF c \in S THEN "done" ELSE pc[c]]
    /\ outcome' = [c \in Calls |->
                     IF c \in S THEN Outcome("Cancelled", 0, NoValue, FALSE) ELSE outcome[c]]
    /\ UNCHANGED <<clientVars, cancelReq, retries, clock, blocker,
                   attempt, request, requests, response, waited>>

Next ==
    \/ EnterScope
    \/ \E c \in Calls : StartCall(c)
    \/ \E c \in Calls, r \in Responses : Receive(c, r)
    \/ \E c \in Calls : WakeUp(c)
    \/ \E c \in Calls : ConnLost(c)
    \/ ExitNormal
    \/ \E c \in Calls : ExitError(c)
    \/ CancelRequest
    \/ \E S \in SUBSET Calls : DeliverCancel(S)

Spec == Init /\ [][Next]_vars

\* ---- one call with every input ------------------------------------------------
\* answers of the transport that take a call through every attempt
ReqResponses == {Response(200, "1"), Response(TOO_MANY_REQUESTS, "2")}
JsonData == {"1"}
ReqKwargs == ParamMaps \cup {AttemptKw}

InitReq == \E env \in EnvValues : InitWith(env)

\* ds_client(universe_id, base_params, **kwargs) or ods_client(..., **kwargs)
EnterAny == \E kind \in {"ds", "ods"}, base \in ParamMaps, kwargs \in CallerKws :
               Enter(kind, base, kwargs)

\* any public method of the client, with any arguments
InvokeAny == \E op \in OpsOf(clientKind), key \in EntryKeys, data \in JsonData,
                kw \in ReqKwargs : Invoke(1, op, key, data, kw)

NextReq ==
    \/ EnterAny
    \/ InvokeAny
    \/ \E r \in ReqResponses : Receive(1, r)
    \/ WakeUp(1)

SpecReq == InitReq /\ [][NextReq]_vars

\* ---- one call to its end ------------------------------------------------------
\* the block with a single call made through its client
NextOne ==
    \/ EnterScope
    \/ StartCall(1)
    \/ \E r \in Responses : Receive(1, r)
    \/ WakeUp(1)
    \/ ConnLost(1)
    \/ ExitNormal
    \/ ExitError(1)
    \/ CancelRequest
    \/ \E S \in SUBSET {1} : DeliverCancel(S)

\* the transport answers every request it was handed or loses the connection,
\* and time.sleep returns
Fairness ==
    /\ WF_vars(\E r \in Responses : Receive(1, r))
    /\ WF_vars(WakeUp(1))
    /\ WF_vars(ConnLost(1))

FairOne == Init /\ [][NextOne]_vars /\ Fairness

\* ---- the claims ----------------------------------------------------------

InRange2xx(status) == status >= 200 /\ status <= 299

\* the backoff schedule as the specification tabulates it
Schedule == <<2, 4, 8, 16, 32>>

\* the step in which call c handles a response of the transport
Handles(c) == pc[c] = "inflight" /\ response'[c] # NoResponse

\* C1: a 429 or 502 answer to attempt a in 1..5 starts a wait of exactly
\* Schedule[a] time units and attempt a+1 is issued by the step that ends
\* that wait; time passes in no other step and no other answer starts a wait.
C1_BackoffSchedule ==
    [][\A c \in Calls :
        /\ (Handles(c) /\ response'[c].status \in {429, 502} /\ attempt[c] \in 1..5)
              => (pc'[c] = "sleeping" /\ clock' = clock /\ attempt' = attempt
                    /\ requests' = requests)
        /\ (pc[c] = "sleeping" /\ pc'[c] # "sleeping")
              => (/\ response[c].status \in {429, 502}
                  /\ attempt[c] \in 1..5
                  /\ attempt'[c] = attempt[c] + 1
                  /\ clock' = clock + Schedule[attempt[c]]
                  /\ requests'[c] = requests[c] + 1)
        /\ (attempt[c] >= 1 /\ attempt'[c] # attempt[c]) => pc[c] = "sleeping"
        /\ (pc'[c] = "sleeping" /\ pc[c] # "sleeping")
              => (Handles(c) /\ response'[c].status \in {429, 502})
        /\ (clock' # clock) => (\E d \in Calls : pc[d] = "sleeping" /\ pc'[d] # "sleeping")
      ]_vars

C1_Witness ==
    \E c \in Calls : attempt[c] = 6 /\ requests[c] = 6 /\ clock = 62 /\ pc[c] = "inflight"

\* C2: after six 429/502 answers in a row the call has issued six requests,
\* issues no seventh and has failed with an HttpError of the sixth status.
C2_ExhaustedRetriesRaise ==
    \A c \in Calls :
        /\ requests[c] <= 6
        /\ attempt[c] <= 6
        /\ (attempt[c] = 6 /\ response[c].status \in {429, 502})
              => (/\ pc[c] = "done"
                  /\ requests[c] = 6
                  /\ outcome[c] = Outcome("HttpError", response[c].status, NoValue, FALSE))

C2_Witness ==
    \E c \in Calls :
        /\ attempt[c] = 6 /\ response[c].status = 502 /\ retries = 5
        /\ outcome[c].kind = "HttpError" /\ outcome[c].status = 502

\* C3: an error status other than 429 and 502 ends the call with an
\* HttpError of that status in the step that handles it: no further request,
\* no wait, the retry counter unchanged.
C3_OtherErrorsNotRetried ==
    [][\A c \in Calls :
        (Handles(c) /\ response'[c].status >= 400 /\ response'[c].status \notin {429, 502})
           => (/\ pc'[c] = "done"
               /\ outcome'[c] = Outcome("HttpError", response'[c].status, NoValue, FALSE)
               /\ retries' = retries
               /\ requests' = requests
               /\ attempt' = attempt
               /\ clock' = clock
               /\ blocker' = 0)
      ]_vars

C3_Witness ==
    \E c \in Calls :
        /\ pc[c] = "done" /\ attempt[c] = 1 /\ response[c].status = 401
        /\ outcome[c].kind = "HttpError" /\ outcome[c].status = 401
        /\ retries = 0

\* C4: every answer with a status outside 200..299, unless it is a 429/502
\* still being retried, ends the call with an HttpError of that status.
C4_Non2xxRaises ==
    \A c \in Calls :
        (response[c] # NoResponse /\ ~InRange2xx(response[c].status) /\ pc[c] # "sleeping")
           => (/\ pc[c] = "done"
               /\ outcome[c].kind = "HttpError"
               /\ outcome[c].status = response[c].status)

\* C5: a 204 answer makes the call return Empty and its body is not parsed,
\* whatever the body and whatever the attempt.
C5_NoContentIsEmpty ==
    \A c \in Calls :
        (response[c].status = 204)
           => (pc[c] = "done" /\ outcome[c] = Outcome("Empty", 204, NoValue, FALSE))

C5_Witness ==
    \E c \in Calls :
        /\ response[c] = Response(204, "<html>") /\ attempt[c] > 1
        /\ outcome[c].kind = "Empty"

\* the payload of a JSON body, as the claim reads it
PayloadOf(body) == CASE body = "1" -> 1 [] body = "2" -> 2

\* C6: a 2xx answer other than 204 with a JSON body makes the call return
\* Success with the payload of that answer, also after retried answers.
C6_SuccessPayload ==
    \A c \in Calls :
        (InRange2xx(response[c].status) /\ response[c].status # 204
            /\ response[c].body \in {"1", "2"})
           => (/\ pc[c] = "done"
               /\ outcome[c] = Outcome("Success", response[c].status,
                                       PayloadOf(response[c].body), TRUE))

C6_Witness ==
    \E c \in Calls :
        /\ response[c] = Response(200, "2") /\ attempt[c] > 1
        /\ outcome[c].kind = "Success" /\ outcome[c].payload = 2

\* C7: once the block has exited, a call started through the client fails
\* with the released session and hands no request to the transport.
C7_CallsAfterReleaseFail ==
    [][\A c \in Calls :
        (scope = "exited" /\ pc[c] = "idle" /\ pc'[c] # "idle")
           => (/\ pc'[c] = "done"
               /\ outcome'[c].kind = "SessionClosed"
               /\ requests'[c] = 0)
      ]_vars

C7_Witness ==
    \E c \in Calls :
        /\ scope = "exited" /\ exitPath = "error"
        /\ outcome[c].kind = "SessionClosed" /\ requests[c] = 0

\* C8: the session is closed exactly once when the block has been left, by
\* whichever path, and not before.
C8_ReleasedExactlyOnce ==
    /\ releases <= 1
    /\ (scope = "exited") <=> (releases = 1)
    /\ (scope = "exited") => (session = "closed" /\ exitPath \in {"normal", "error", "cancel"})
    /\ (scope = "active") => (session = "open")

C8_Witness ==
    /\ exitPath = "cancel" /\ releases = 1 /\ session = "closed"
    /\ \E c \in Calls : outcome[c].kind = "Cancelled" /\ attempt[c] = 6

RECURSIVE SumRetries(_)
SumRetries(S) ==
    IF S = {} THEN 0
    ELSE LET c == CHOOSE x \in S : TRUE
         IN (IF attempt[c] = 0 THEN 0 ELSE attempt[c] - 1) + SumRetries(S \ {c})

AllFinished == \A c \in Calls : pc[c] = "done"

\* C9: when all calls on the client have finished the retry counter equals
\* the number of retries the calls performed together.
C9_CounterCountsAllRetries ==
    AllFinished => retries = SumRetries(Calls)

C9_Witness ==
    /\ AllFinished
    /\ \E c, d \in Calls : c # d /\ attempt[c] >= 3 /\ attempt[d] >= 3
    /\ retries >= 4

\* C10: while a call is in its backoff wait, another call whose request is
\* in flight can take its next step.
C10_BackoffDoesNotBlock ==
    \A c, d \in Calls :
        (pc[c] = "sleeping" /\ d # c /\ pc[d] = "inflight" /\ session = "open")
           => ENABLED (\E r \in Responses : Receive(d, r))

\* C11: the request of get_entry, set_entry and delete_entry carries the
\* entry_key argument as 'entryKey', whatever the base parameters and the
\* keyword parameters of the call contain.
C11_EntryKeyAlwaysWins ==
    [][\A op \in KeyedOps, key \in EntryKeys, data \in JsonData, kw \in ReqKwargs :
        Invoke(1, op, key, data, kw) => request'[1].params["entryKey"] = key
      ]_vars

DsOps == {"list_datastores", "list_entries", "get_entry", "set_entry", "delete_entry"}

\* C12: in the request of every AsyncDataStoreClient method a key of the
\* call's keyword parameters carries the call's value, a key of the base
\* parameters alone carries the base value, and base_params is left as it was.
C12_CallParamsOverrideBase ==
    [][\A op \in DsOps, key \in EntryKeys, data \in JsonData, kw \in ReqKwargs :
        Invoke(1, op, key, data, kw) =>
           (/\ \A k \in DOMAIN kw : k \in DOMAIN request'[1].params
                                     /\ request'[1].params[k] = kw[k]
            /\ \A k \in DOMAIN baseParams \ DOMAIN kw :
                  k \in DOMAIN request'[1].params /\ request'[1].params[k] = baseParams[k]
            /\ DOMAIN request'[1].params \subseteq
                  (DOMAIN kw \cup DOMAIN baseParams \cup {"entryKey"})
            /\ baseParams' = baseParams)
      ]_vars

C12_Witness ==
    /\ clientKind = "ds"
    /\ baseParams = [k \in {"cursor", "entryKey"} |-> "a"]
    /\ request[1].verb = "POST"
    /\ request[1].params = [k \in {"cursor", "entryKey"} |-> IF k = "cursor" THEN "b" ELSE "a"]

HeadersOf(kwargs) ==
    IF "headers" \in DOMAIN kwargs /\ kwargs["headers"].isMap
    THEN kwargs["headers"].map ELSE EmptyMap

\* C13: the session is built with the caller's keyword arguments over the
\* default headers: a caller's x-api-key replaces the environment's, the
\* caller's other headers stand next to the key, and without a caller's
\* x-api-key the headers carry the environment's value.
C13_ApiKeyDeepMerge ==
    [][\A kind \in {"ds", "ods"}, base \in ParamMaps, kwargs \in CallerKws :
        Enter(kind, base, kwargs) =>
           (/\ "headers" \in DOMAIN sessionKw' /\ sessionKw'["headers"].isMap
            /\ LET h == sessionKw'["headers"].map
                   mine == HeadersOf(kwargs)
               IN /\ DOMAIN h = DOMAIN mine \cup {"x-api-key"}
                  /\ \A k \in DOMAIN mine : h[k] = mine[k]
                  /\ ("x-api-key" \notin DOMAIN mine) => h["x-api-key"] = environ
            /\ \A k \in DOMAIN kwargs \ {"headers"} :
                  k \in DOMAIN sessionKw' /\ sessionKw'[k] = kwargs[k])
      ]_vars

C13_Witness ==
    /\ environ = "K"
    /\ scope = "active"
    /\ sessionKw = HeadersKw([k \in {"x-api-key", "accept"} |-> IF k = "accept" THEN "json" ELSE "K"])

\* C14: a 2xx answer other than 204 whose body is not JSON ends the call with
\* a ParseError in the step that handles it: no retry, no further request,
\* the retry counter unchanged.
C14_ParseErrorSurfaces ==
    [][\A c \in Calls :
        (Handles(c) /\ InRange2xx(response'[c].status) /\ response'[c].status # 204
            /\ response'[c].body \notin {"1", "2"})
           => (/\ pc'[c] = "done"
               /\ outcome'[c].kind = "ParseError"
               /\ retries' = retries
               /\ requests' = requests
               /\ attempt' = attempt
               /\ clock' = clock
               /\ blocker' = 0)
      ]_vars

C14_Witness ==
    \E c \in Calls :
        /\ response[c] = Response(200, "<html>") /\ attempt[c] > 1
        /\ pc[c] = "done" /\ outcome[c].kind = "ParseError"

\* the terminal state an outcome stands for; every error that leaves the call
\* is a failure
TerminalOf(kind) ==
    CASE kind = "Success" -> "TerminalSuccess"
      [] kind = "Empty" -> "TerminalEmpty"
      [] kind \in {"HttpError", "ParseError", "SessionClosed", "ConnError", "Cancelled"}
            -> "TerminalFailure"
      [] OTHER -> "None"

\* C15: a call hands at most 6 requests to the transport, a retry is taken
\* only from an attempt n <= 5 answered 429 or 502, a started call reaches a
\* terminal state and stays in that one state.
C15_BoundedAttemptsThenTerminal ==
    /\ [](\A c \in Calls :
            /\ requests[c] <= 6
            /\ (pc[c] = "done") <=> (TerminalOf(outcome[c].kind) # "None")
            /\ (pc[c] = "sleeping") => (response[c].status \in {429, 502} /\ attempt[c] <= 5))
    /\ [][\A c \in Calls :
            /\ (pc[c] = "done") => (pc'[c] = "done" /\ outcome'[c] = outcome[c]
                                       /\ requests'[c] = requests[c])
            /\ (requests'[c] # requests[c] /\ requests[c] >= 1)
                  => (pc[c] = "sleeping" /\ response[c].status \in {429, 502}
                        /\ attempt[c] <= 5)
            /\ (Handles(c) /\ ~(response'[c].status \in {429, 502} /\ attempt[c] <= 5))
                  => pc'[c] = "done"
         ]_vars
    /\ \A c \in Calls : (pc[c] = "inflight") ~> (pc[c] = "done")

C15_Witness ==
    \E c \in Calls :
        /\ pc[c] = "done" /\ requests[c] = 6
        /\ response[c].status = 429 /\ TerminalOf(outcome[c].kind) = "TerminalFailure"

RECURSIVE SumOf(_, _)
SumOf(f, S) ==
    IF S = {} THEN 0
    ELSE LET c == CHOOSE x \in S : TRUE IN f[c] + SumOf(f, S \ {c})

Started == {c \in Calls : attempt[c] >= 1}

\* C16: the retry counter starts at 0, moves only up and by 1 with each
\* retry, and equals the requests issued minus the calls made; a call adds
\* between 0 and 5.  A request counts as issued when session.request is
\* called; the second equation counts the requests an open session took.
C16_CounterIsRequestsMinusCalls ==
    /\ [](/\ (scope = "init") => (retries = 0)
          /\ retries = SumOf(attempt, Calls) - Cardinality(Started)
          /\ (\A c \in Calls : outcome[c].kind # "SessionClosed")
                => retries = SumOf(requests, Calls) - Cardinality(Started)
          /\ \A c \in Started : attempt[c] - 1 \in 0..5)
    /\ [][/\ retries' \in {retries, retries + 1}
          /\ (retries' = retries + 1)
                <=> (\E c \in Calls : pc[c] = "sleeping" /\ pc'[c] # "sleeping")
         ]_vars

C16_Witness ==
    /\ AllFinished
    /\ retries = 6
    /\ SumOf(requests, Calls) = 8
    /\ \E c \in Calls : attempt[c] = 6

\* C17: every call starts at attempt 1, whatever its keyword arguments, and
\* is retried on each of its own attempts 1..5, whatever the retry counter
\* and the retries of the other calls.
C17_RetryStatePerCall ==
    [][\A c \in Calls :
        /\ (pc[c] = "idle" /\ pc'[c] # "idle") => attempt'[c] = 1
        /\ (Handles(c) /\ response'[c].status \in {429, 502} /\ attempt[c] <= 5)
              => pc'[c] = "sleeping"
        /\ (attempt'[c] # attempt[c])
              => (\A d \in Calls \ {c} : attempt'[d] = attempt[d])
      ]_vars

C17_Witness ==
    /\ retries = 10
    /\ \E c, d \in Calls : c # d /\ attempt[c] = 6 /\ attempt[d] = 6 /\ requests[d] = 6

\* C18: a retry hands the transport the request of the attempt before it:
\* method, URL, query parameters and JSON body of the call and the headers
\* of the session are the same on every attempt.
C18_RetryRepeatsRequest ==
    [][(attempt[1] >= 1 /\ attempt'[1] # attempt[1])
          => (/\ request'[1] = request[1]
              /\ sessionKw' = sessionKw
              /\ baseParams' = baseParams)
      ]_vars

C18_Witness ==
    /\ attempt[1] = 6
    /\ request[1].verb = "POST"
    /\ request[1].json = "1"
    /\ request[1].params = [k \in {"cursor", "entryKey"} |-> IF k = "cursor" THEN "b" ELSE "k"]

\* C19: a call that has performed k retries has waited 2^(k+1) - 2 time
\* units in all, 62 once its retries are exhausted, and no wait is longer
\* than 32.
C19_TotalBackoff ==
    /\ [](\A c \in Started :
            /\ attempt[c] - 1 \in 0..5
            /\ waited[c] = 2 ^ ((attempt[c] - 1) + 1) - 2
            /\ (attempt[c] = 6) => (waited[c] = 62))
    /\ [][\A c \in Calls : waited'[c] - waited[c] <= 32 /\ clock' - clock <= 32]_vars

C19_Witness ==
    \E c, d \in Calls :
        /\ c # d /\ pc[c] = "done" /\ attempt[c] = 6 /\ waited[c] = 62
        /\ attempt[d] = 4 /\ waited[d] = 14

EntriesUrl ==
    "https://apis.roblox.com/ordered-data-stores/v1/universes/universe_id/orderedDataStores/data-store-name/scopes/global/entries"

\* C20: delete of the ordered client sends DELETE to the entries URL, '/' and
\* the entry id with no query parameters, whatever keyword arguments it is
\* given; list sends its keyword arguments as the query parameters.
C20_OdsDeleteDropsKwargs ==
    [][\A key \in EntryKeys, data \in JsonData, kw \in ReqKwargs :
        /\ Invoke(1, "delete", key, data, kw)
              => request'[1] = Request("DELETE", EntriesUrl \o "/" \o key, EmptyMap, NoJson)
        /\ Invoke(1, "list", key, data, kw)
              => request'[1] = Request("GET", EntriesUrl, kw, NoJson)
      ]_vars

C20_Witness ==
    /\ clientKind = "ods"
    /\ request[1] = Request("DELETE", EntriesUrl \o "/k", EmptyMap, NoJson)
    /\ pc[1] = "done" /\ outcome[1].kind = "Success"
====
